---- MODULE Spec2Model ----
(***************************************************************************)
(* Model of iconlib.py: the icon library registry, the path resolver       *)
(* get_path, the bitmap producer get_qpixmap with its two recolouring      *)
(* routines, and the filesystem the resolver looks at.                     *)
(*                                                                         *)
(* Strings are TLA+ strings; a dict is a function whose domain is its key  *)
(* set; an image is a record [width, height, pixels] whose pixels are kept *)
(* row by row, pixel (x, y) at index y * width + x + 1; a QColor is a      *)
(* record [r, g, b, a]; an optional QColor is <<>> (None) or <<c>>.        *)
(***************************************************************************)
EXTENDS Integers, Sequences, FiniteSets, TLC

VARIABLES LIBRARIES, disk, colour, call

vars == <<LIBRARIES, disk, colour, call>>

(***************************************************************************)
(* Bounds and input sets                                                   *)
(***************************************************************************)
\* An image of the model has at most MaxPixels pixels.
MaxPixels == 2

\* Library names a caller passes: the two registered ones and a stranger.
LibraryArgs == {"material", "internal", "bogus"}

\* Icon names a caller passes.
IconArgs == {"add", "wifi"}

\* Keyword overrides a caller passes: any of style and ext, or neither.
KwargsArgs ==
    {[k \in {} |-> ""]}
      \cup {[style |-> s] : s \in {"bold"}}
      \cup {[ext |-> e] : e \in {"svg", "png"}}
      \cup {[style |-> s, ext |-> e] : s \in {"bold"}, e \in {"svg", "png"}}

\* Alpha values of the pixels of a source file: transparent, half, opaque.
Alphas == {0, 128, 255}

\* Width and height of an image, or of a requested bitmap.
Dims == {d \in (1..MaxPixels) \X (1..MaxPixels) : d[1] * d[2] <= MaxPixels}

\* The pixels a raster file holds; a transparent pixel still has channels.
FilePixels == {[r |-> 10, g |-> 20, b |-> 30, a |-> al] : al \in Alphas}

\* The images a raster file decodes to.
FileImages ==
    UNION {{[width |-> d[1], height |-> d[2], pixels |-> p] :
              p \in [1..(d[1] * d[2]) -> FilePixels]} : d \in Dims}

\* The coverage (alpha) an SVG document paints on each pixel of a buffer.
Shapes(width, height) == [1..(width * height) -> Alphas]

\* The QColor objects a caller starts with.
CallerColours == {[r |-> 255, g |-> 0, b |-> 0, a |-> al] : al \in {64, 255}}

(***************************************************************************)
(* Strings                                                                 *)
(***************************************************************************)
CharAt(s, i) == SubSeq(s, i, i)

\* str.rfind(c): the last index of c in s, 0 when absent (1-based).
RECURSIVE RFindFrom(_, _, _)
RFindFrom(s, c, i) ==
    IF i = 0 THEN 0
    ELSE IF CharAt(s, i) = c THEN i
    ELSE RFindFrom(s, c, i - 1)

RFind(s, c) == RFindFrom(s, c, Len(s))

\* The index of the first c in s at or after i, Len(s) + 1 when absent.
RECURSIVE FindFrom(_, _, _)
FindFrom(s, c, i) ==
    IF i > Len(s) THEN Len(s) + 1
    ELSE IF CharAt(s, i) = c THEN i
    ELSE FindFrom(s, c, i + 1)

EndsWith(s, t) ==
    /\ Len(t) <= Len(s)
    /\ SubSeq(s, Len(s) - Len(t) + 1, Len(s)) = t

\* Code points of the characters the library names are made of.
Alphabet == "abcdefghijklmnopqrstuvwxyz"

Ord(c) == FindFrom(Alphabet, c, 1)

\* Python's < on str: the first differing character decides, then length.
RECURSIVE StrLessFrom(_, _, _)
StrLessFrom(s, t, i) ==
    IF i > Len(t) THEN FALSE
    ELSE IF i > Len(s) THEN TRUE
    ELSE IF CharAt(s, i) = CharAt(t, i) THEN StrLessFrom(s, t, i + 1)
    ELSE Ord(CharAt(s, i)) < Ord(CharAt(t, i))

StrLess(s, t) == StrLessFrom(s, t, 1)

(***************************************************************************)
(* The registry                                                            *)
(***************************************************************************)
ICONLIB_ROOT == "/iconlib/icons"

InitialLibraries ==
    [name \in {"material", "internal"} |->
        IF name = "material"
        THEN [path |-> "{icon}/{style}.{ext}",
              defaults |-> [style |-> "regular", ext |-> "svg"]]
        ELSE [path |-> "{icon}/{style}.{ext}",
              defaults |-> [style |-> "regular", ext |-> "png"]]]

\* sorted(names): ascending, one entry per element.
RECURSIVE SortedReverse(_)
SortedReverse(S) ==
    IF S = {} THEN <<>>
    ELSE LET m == CHOOSE x \in S : \A y \in S : y = x \/ StrLess(y, x)
         IN  <<m>> \o SortedReverse(S \ {m})

RECURSIVE Sorted(_)
Sorted(S) ==
    IF S = {} THEN <<>>
    ELSE LET m == CHOOSE x \in S : \A y \in S : x = y \/ StrLess(x, y)
         IN  <<m>> \o Sorted(S \ {m})

get_library_names(reg) == Sorted(DOMAIN reg)

(***************************************************************************)
(* Path resolution                                                         *)
(***************************************************************************)
\* dict.update: the keys of e are added to d, the value of e winning.
Update(d, e) ==
    [k \in (DOMAIN d) \cup (DOMAIN e) |-> IF k \in DOMAIN e THEN e[k] ELSE d[k]]

\* str.format(**subs) on a template of literal text and {key} fields.
RECURSIVE FormatFrom(_, _, _)
FormatFrom(t, i, subs) ==
    IF i > Len(t) THEN ""
    ELSE IF CharAt(t, i) = "{"
         THEN LET j == FindFrom(t, "}", i)
              IN  subs[SubSeq(t, i + 1, j - 1)] \o FormatFrom(t, j + 1, subs)
         ELSE CharAt(t, i) \o FormatFrom(t, i + 1, subs)

Format(t, subs) == FormatFrom(t, 1, subs)

\* pathlib's a / b: an absolute b replaces a.
JoinPath(a, b) ==
    IF Len(b) > 0 /\ CharAt(b, 1) = "/" THEN b ELSE a \o "/" \o b

\* Path.suffix: the last component's text from its last dot on, when that
\* dot is neither its first nor its last character.
Suffix(p) ==
    LET name == SubSeq(p, RFind(p, "/") + 1, Len(p))
        i    == RFind(name, ".")
    IN  IF 1 < i /\ i < Len(name) THEN SubSeq(name, i, Len(name)) ELSE ""

\* Path.exists() on the filesystem d.
ExistsAlways(p, d) == TRUE

Exists(p, d) == p \in d

\* The substitutions of get_path: defaults, then the icon, then the overrides.
SubstitutionsOverridesFirst(library_config, icon, kwargs) ==
    Update(Update(kwargs, [icon |-> icon]), library_config.defaults)

Substitutions(library_config, icon, kwargs) ==
    Update(Update(library_config.defaults, [icon |-> icon]), kwargs)

\* The registry once get_path has built its substitutions: they are built in
\* a copy of the defaults, so the registered defaults stay as they were.
RegistryAfterNoCopy(reg, library, substitutions) ==
    [reg EXCEPT ![library].defaults = substitutions]

RegistryAfter(reg, library, substitutions) == reg

\* LIBRARIES.get(library): <<>> for None, <<config>> for a registered name.
GetOrFirst(reg, library) ==
    IF library \in DOMAIN reg THEN <<reg[library]>> ELSE <<reg["material"]>>

Get(reg, library) ==
    IF library \in DOMAIN reg THEN <<reg[library]>> ELSE <<>>

\* The end of get_path: the existence check on the path it has built.
CheckedSkipped(icon_path, d) == [kind |-> "ok", path |-> icon_path]

Checked(icon_path, d) ==
    IF ~Exists(icon_path, d)
    THEN [kind |-> "FileNotFoundError", path |-> icon_path]
    ELSE [kind |-> "ok", path |-> icon_path]

\* get_path: the result of the call and the registry it leaves.
get_path(reg, d, library, icon, kwargs) ==
    LET library_config == Get(reg, library)
    IN  IF library_config = <<>>
        THEN [result |-> [kind |-> "ValueError",
                          names |-> get_library_names(reg)],
              registry |-> reg]
        ELSE LET icon_path_template == library_config[1].path
                 substitutions ==
                     Substitutions(library_config[1], icon, kwargs)
                 relative_icon_path ==
                     Format(icon_path_template, substitutions)
                 icon_path ==
                     JoinPath(JoinPath(ICONLIB_ROOT, library),
                              relative_icon_path)
             IN  [result |-> Checked(icon_path, d),
                  registry |-> RegistryAfter(reg, library, substitutions)]

\* The icon files an installation may hold.
IconFiles ==
    { "/iconlib/icons/material/add/regular.svg",
      "/iconlib/icons/internal/add/regular.png",
      "/iconlib/icons/material/add/bold.png",
      "/iconlib/icons/internal/wifi/regular.svg" }

(***************************************************************************)
(* Bitmaps                                                                 *)
(***************************************************************************)
\* Qt.GlobalColor.white and Qt.GlobalColor.transparent as QColor channels.
White == [r |-> 255, g |-> 255, b |-> 255, a |-> 255]

Transparent == [r |-> 0, g |-> 0, b |-> 0, a |-> 0]

\* The colour an SVG document of the model paints its shape with.
ShapeColour == [r |-> 10, g |-> 20, b |-> 30]

\* QPixmap(width, height) followed by fill(colour).
Filled(width, height, c) ==
    [width |-> width, height |-> height,
     pixels |-> [i \in 1..(width * height) |-> c]]

\* QSvgRenderer.render on a painter in its initial mode: a pixel the shape
\* covers with alpha shape[i] > 0 is painted over the buffer's transparent
\* pixel.
Render(pixmap, shape) ==
    [pixmap EXCEPT !.pixels =
        [i \in DOMAIN pixmap.pixels |->
            IF shape[i] = 0 THEN pixmap.pixels[i]
            ELSE [r |-> ShapeColour.r, g |-> ShapeColour.g,
                  b |-> ShapeColour.b, a |-> shape[i]]]]

\* fillRect over the whole pixmap: each pixel is the colour, its alpha
\* reduced by the alpha the pixel had (CompositionMode_SourceIn).
FillRectWhole(pixmap, color) ==
    [pixmap EXCEPT !.pixels = [i \in DOMAIN pixmap.pixels |-> color]]

FillRectSourceIn(pixmap, color) ==
    [pixmap EXCEPT !.pixels =
        [i \in DOMAIN pixmap.pixels |->
            LET alpha == (color.a * pixmap.pixels[i].a) \div 255
            IN  IF alpha = 0 THEN Transparent
                ELSE [r |-> color.r, g |-> color.g, b |-> color.b,
                      a |-> alpha]]]

svg_to_pixmap(shape, width, height, color) ==
    FillRectSourceIn(Render(Filled(width, height, Transparent), shape), color)

\* The pixel loop of _fill_pixmap_by_alpha from pixel k on, k counting the
\* pixels row by row (y outer, x inner); fill_color is the one QColor object
\* the loop sets the alpha of and then stores a copy of.
RECURSIVE FillFromKeepingAlpha(_, _, _)
FillFromKeepingAlpha(image, fill_color, k) ==
    IF k = image.width * image.height
    THEN [pixmap |-> image, fill_color |-> fill_color]
    ELSE LET pixel == image.pixels[k + 1]
         IN  IF pixel.a > 0
             THEN FillFromKeepingAlpha(
                      [image EXCEPT !.pixels[k + 1] = fill_color],
                      fill_color, k + 1)
             ELSE FillFromKeepingAlpha(image, fill_color, k + 1)

RECURSIVE FillFrom(_, _, _)
FillFrom(image, fill_color, k) ==
    IF k = image.width * image.height
    THEN [pixmap |-> image, fill_color |-> fill_color]
    ELSE LET x     == k % image.width
             y     == k \div image.width
             pixel == image.pixels[y * image.width + x + 1]
         IN  IF pixel.a > 0
             THEN LET set == [fill_color EXCEPT !.a = pixel.a]
                  IN  FillFrom(
                          [image EXCEPT
                              !.pixels[y * image.width + x + 1] = set],
                          set, k + 1)
             ELSE FillFrom(image, fill_color, k + 1)

\* _fill_pixmap_by_alpha: the new pixmap and the QColor object afterwards.
fill_pixmap_by_alpha_all(pixmap, fill_color) ==
    FillFromKeepingAlpha(pixmap, fill_color, 0)

fill_pixmap_by_alpha(pixmap, fill_color) == FillFrom(pixmap, fill_color, 0)

\* QSize(iw, ih).scaled(width, height, KeepAspectRatio): the size of the
\* bitmap get_qpixmap returns.
ScaledSize(iw, ih, width, height) ==
    LET rw == (height * iw) \div ih
    IN  IF rw <= width THEN <<rw, height>>
        ELSE <<width, (width * ih) \div iw>>

\* The raster branch of get_qpixmap: the pixmap and the caller's QColor.
RasterAlwaysFilled(source, c, held) ==
    LET filled == fill_pixmap_by_alpha(source, IF c # <<>> THEN c[1] ELSE White)
    IN  [pixmap |-> filled.pixmap,
         colour |-> IF c # <<>> THEN filled.fill_color ELSE held]

Raster(source, c, held) ==
    IF c # <<>>
    THEN LET filled == fill_pixmap_by_alpha(source, c[1])
         IN  [pixmap |-> filled.pixmap, colour |-> filled.fill_color]
    ELSE [pixmap |-> source, colour |-> held]

\* The vector branch of get_qpixmap.
VectorKeepingNone(source, width, height, c) ==
    svg_to_pixmap(source, width, height,
                  IF c = <<>> THEN Transparent ELSE c[1])

Vector(source, width, height, c) ==
    svg_to_pixmap(source, width, height, IF c = <<>> THEN White ELSE c[1])

\* get_qpixmap. c is the colour argument: <<>> for None, <<held>> for the
\* caller's QColor object, whose channels are held. source is what the file
\* at the resolved path holds: the shape of an SVG document, or the image of
\* a raster file. The result keeps the pixmap handed to scaled() and the size
\* scaled() gives it.
get_qpixmap(reg, d, library, icon, width, height, c, held, kwargs, source) ==
    LET found == get_path(reg, d, library, icon, kwargs)
    IN  IF found.result.kind # "ok"
        THEN [result |-> found.result, registry |-> found.registry,
              colour |-> held]
        ELSE LET icon_path == found.result.path
                 svg       == Suffix(icon_path) = ".svg"
                 raster    == Raster(source, c, held)
                 pixmap    == IF svg THEN Vector(source, width, height, c)
                              ELSE raster.pixmap
             IN  [result |->
                      [kind |-> "ok", path |-> icon_path, source |-> source,
                       pixmap |-> pixmap,
                       size |-> ScaledSize(pixmap.width, pixmap.height,
                                           width, height)],
                  registry |-> found.registry,
                  colour |-> IF svg THEN held ELSE raster.colour]

\* What the file at a path may hold, for a bitmap of the requested size.
Sources(found, width, height) ==
    IF found.kind # "ok" THEN {<<>>}
    ELSE IF Suffix(found.path) = ".svg" THEN Shapes(width, height)
    ELSE FileImages

(***************************************************************************)
(* State machine                                                           *)
(*                                                                         *)
(* The caller is single-threaded: it makes a call, holds what the call     *)
(* returned or raised, and lets go of it before its next call; the one     *)
(* call it makes again while it still holds the outcome is the get_path    *)
(* call it has just made. Icon files come and go between calls, also while *)
(* the caller holds a resolved path or a list of names; a bitmap is let go *)
(* of first, which changes nothing the program keeps.                      *)
(***************************************************************************)
\* How many times in a row the caller makes one get_path call.
MaxAttempts == 2

Idle == [op |-> "none"]

Init ==
    /\ LIBRARIES = InitialLibraries
    /\ disk \in SUBSET IconFiles
    /\ colour \in CallerColours
    /\ call = Idle

GetLibraryNames ==
    /\ call = Idle
    /\ call' = [op |-> "get_library_names",
                result |-> get_library_names(LIBRARIES)]
    /\ UNCHANGED <<LIBRARIES, disk, colour>>

\* A get_path call: a first one, or the held one made again. The record
\* keeps the number of the attempt and the outcome of the attempt before.
GetPath ==
    \E library \in LibraryArgs, icon \in IconArgs, kwargs \in KwargsArgs :
        LET args == [library |-> library, icon |-> icon, kwargs |-> kwargs]
            out  == get_path(LIBRARIES, disk, library, icon, kwargs)
        IN  /\ \/ call = Idle
               \/ /\ call.op = "get_path"
                  /\ call.args = args
                  /\ call.attempt < MaxAttempts
            /\ call' = [op |-> "get_path",
                        args |-> args,
                        attempt |-> IF call = Idle THEN 1
                                    ELSE call.attempt + 1,
                        earlier |-> IF call = Idle THEN "none"
                                    ELSE call.result.kind,
                        result |-> out.result]
            /\ LIBRARIES' = out.registry
            /\ UNCHANGED <<disk, colour>>

GetQPixmap ==
    /\ call = Idle
    /\ \E library \in LibraryArgs, icon \in IconArgs, kwargs \in KwargsArgs :
        LET found == get_path(LIBRARIES, disk, library, icon, kwargs).result
        IN  \E size \in Dims, c \in {<<>>, <<colour>>} :
              \E source \in Sources(found, size[1], size[2]) :
                LET out ==
                        get_qpixmap(LIBRARIES, disk, library, icon, size[1],
                                    size[2], c, colour, kwargs, source)
                IN  /\ call' = [op |-> "get_qpixmap",
                                args |-> [library |-> library, icon |-> icon,
                                          width |-> size[1],
                                          height |-> size[2],
                                          colour |-> c, kwargs |-> kwargs],
                                result |-> out.result]
                    /\ LIBRARIES' = out.registry
                    /\ colour' = out.colour
                    /\ UNCHANGED disk

\* The caller lets go of the outcome it holds.
Release ==
    /\ call # Idle
    /\ call' = Idle
    /\ UNCHANGED <<LIBRARIES, disk, colour>>

CreateFile ==
    /\ call.op # "get_qpixmap"
    /\ \E p \in IconFiles \ disk :
        /\ disk' = disk \cup {p}
        /\ UNCHANGED <<LIBRARIES, colour, call>>

RemoveFile ==
    /\ call.op # "get_qpixmap"
    /\ \E p \in disk :
        /\ disk' = disk \ {p}
        /\ UNCHANGED <<LIBRARIES, colour, call>>

Next ==
    \/ GetLibraryNames
    \/ GetPath
    \/ GetQPixmap
    \/ Release
    \/ CreateFile
    \/ RemoveFile

Spec == Init /\ [][Next]_vars

(***************************************************************************)
(* Properties                                                              *)
(***************************************************************************)
\* The path a registered library resolves an icon to, written out from the
\* registry's template: root/library/icon/style.ext, each of style and ext
\* being the override when there is one and the library's default otherwise.
Chosen(args, key) ==
    IF key \in DOMAIN args.kwargs THEN args.kwargs[key]
    ELSE InitialLibraries[args.library].defaults[key]

ExpectedPath(args) ==
    ICONLIB_ROOT \o "/" \o args.library \o "/" \o args.icon \o "/"
        \o Chosen(args, "style") \o "." \o Chosen(args, "ext")

\* What a get_path call gives on the filesystem d.
ExpectedResult(args, d) ==
    IF args.library \notin {"material", "internal"}
    THEN [kind |-> "ValueError", names |-> <<"internal", "material">>]
    ELSE IF ExpectedPath(args) \in d
         THEN [kind |-> "ok", path |-> ExpectedPath(args)]
         ELSE [kind |-> "FileNotFoundError", path |-> ExpectedPath(args)]

Resolved == call.op \in {"get_path", "get_qpixmap"}

Rendered == call.op = "get_qpixmap" /\ call.result.kind = "ok"

RenderedVector == Rendered /\ Suffix(call.result.path) = ".svg"

RenderedRaster == Rendered /\ Suffix(call.result.path) # ".svg"

\* C1: get_path for a library that is not registered fails with the library
\* not found error, whatever the icon, the overrides and the files on disk.
C1_UnregisteredLibraryNotFound ==
    (call.op = "get_path" /\ call.args.library \notin {"material", "internal"})
        => call.result.kind = "ValueError"

C1_Witness ==
    /\ call.op = "get_path"
    /\ call.args.library = "bogus"
    /\ call.args.kwargs = [style |-> "bold", ext |-> "png"]
    /\ "/iconlib/icons/material/add/bold.png" \in disk
    /\ call.result.kind = "ValueError"

\* C2: a get_path call for a registered library fails with the file not
\* found error when the formatted path is not on disk, and returns that path
\* only when it is on disk at the moment of the call; there is no third
\* outcome.
C2_MissingFileNotFound ==
    [][(call' # call /\ call'.op = "get_path"
          /\ call'.args.library \in {"material", "internal"})
        => /\ call'.result.kind \in {"ok", "FileNotFoundError"}
           /\ call'.result.path = ExpectedPath(call'.args)
           /\ call'.result.kind = "ok" <=> call'.result.path \in disk']_vars

C2_Witness ==
    /\ call.op = "get_path"
    /\ call.attempt = 1
    /\ call.result.kind = "FileNotFoundError"
    /\ call.result.path \notin disk
    /\ disk # {}

C4_FillKeepsAlpha ==
    (RenderedRaster /\ call.args.colour # <<>>)
        => LET src == call.result.source
               out == call.result.pixmap
               req == call.args.colour[1]
           IN  /\ out.width = src.width
               /\ out.height = src.height
               /\ DOMAIN out.pixels = DOMAIN src.pixels
               /\ \A i \in DOMAIN src.pixels :
                    IF src.pixels[i].a = 0
                    THEN out.pixels[i] = src.pixels[i]
                    ELSE out.pixels[i] =
                           [r |-> req.r, g |-> req.g, b |-> req.b,
                            a |-> src.pixels[i].a]

C4_Witness ==
    /\ RenderedRaster
    /\ call.args.colour # <<>>
    /\ \E i, j \in DOMAIN call.result.source.pixels :
        /\ call.result.source.pixels[i].a = 0
        /\ call.result.pixmap.pixels[i].r = 10
        /\ call.result.source.pixels[j].a = 128
        /\ call.args.colour[1].a = 255
        /\ call.result.pixmap.pixels[j] = [r |-> 255, g |-> 0, b |-> 0, a |-> 128]

\* C5: a get_qpixmap call leaves the caller's fill colour object with the
\* channels, alpha included, it had when the call was made.
C5_ColourUntouched ==
    (call.op = "get_qpixmap" /\ call.args.colour # <<>>)
        => colour = call.args.colour[1]

\* C6: the registry keeps its initial value through every call, so a call
\* without overrides resolves with the library's defaults whatever calls
\* came before it.
C6_RegistryConstant ==
    /\ LIBRARIES = InitialLibraries
    /\ (Resolved /\ call.result.kind # "ValueError"
          /\ DOMAIN call.args.kwargs = {})
         => call.result.path =
              ICONLIB_ROOT \o "/" \o call.args.library \o "/"
                \o call.args.icon \o "/regular."
                \o (IF call.args.library = "material" THEN "svg" ELSE "png")

C6_Witness ==
    /\ call.op = "get_qpixmap"
    /\ call.result.kind = "ok"
    /\ call.args.kwargs = [style |-> "bold", ext |-> "png"]
    /\ LIBRARIES["material"].defaults = [style |-> "regular", ext |-> "svg"]

\* C7: a vector source gives a bitmap of the requested width and height in
\* which a pixel the shape does not cover is transparent and a pixel it
\* covers has the red, green and blue of the fill colour (the whole fill
\* colour where the shape is opaque), the fill colour being the requested
\* colour, or white when none is requested.
C7_VectorMask ==
    RenderedVector
        => LET shape == call.result.source
               out   == call.result.pixmap
               fill  == IF call.args.colour = <<>>
                        THEN [r |-> 255, g |-> 255, b |-> 255, a |-> 255]
                        ELSE call.args.colour[1]
           IN  /\ out.width = call.args.width
               /\ out.height = call.args.height
               /\ DOMAIN out.pixels = 1..(call.args.width * call.args.height)
               /\ \A i \in DOMAIN out.pixels :
                    /\ shape[i] = 0 => out.pixels[i].a = 0
                    /\ shape[i] > 0 => /\ out.pixels[i].r = fill.r
                                       /\ out.pixels[i].g = fill.g
                                       /\ out.pixels[i].b = fill.b
                                       /\ out.pixels[i].a > 0
                    /\ shape[i] = 255 => out.pixels[i] = fill

C7_Witness ==
    /\ RenderedVector
    /\ call.args.colour = <<>>
    /\ \E i, j \in DOMAIN call.result.pixmap.pixels :
        /\ call.result.source[i] = 0
        /\ call.result.pixmap.pixels[i].a = 0
        /\ call.result.source[j] = 255
        /\ call.result.pixmap.pixels[j] =
             [r |-> 255, g |-> 255, b |-> 255, a |-> 255]

\* C8: get_library_names lists the keys of the registry, each once, in
\* ascending order, and get_path takes a name for a registered library
\* exactly when the name is in that list.
C8_NamesSorted ==
    /\ call.op = "get_library_names"
         => /\ {call.result[i] : i \in 1..Len(call.result)} = DOMAIN LIBRARIES
            /\ \A i, j \in 1..Len(call.result) :
                 i < j => StrLess(call.result[i], call.result[j])
            /\ call.result = <<"internal", "material">>
    /\ call.op = "get_path"
         => LET names == get_library_names(LIBRARIES)
            IN  call.result.kind # "ValueError"
                  <=> \E i \in 1..Len(names) : names[i] = call.args.library

C8_Witness ==
    /\ call.op = "get_library_names"
    /\ Len(call.result) = 2

\* C9: the outcome of every get_path call is the one its arguments and the
\* files on disk at the time of the call give: made again after the file is
\* removed, a call that succeeded fails with file not found; made again
\* after the file is created, a call that failed succeeds.
C9_ExistenceNotCached ==
    [][(call' # call /\ call'.op = "get_path")
        => /\ call'.result = ExpectedResult(call'.args, disk')
           /\ (call.op = "get_path" /\ call.result.kind = "ok"
                 /\ call.result.path \notin disk')
                => call'.result.kind = "FileNotFoundError"
           /\ (call.op = "get_path"
                 /\ call.result.kind = "FileNotFoundError"
                 /\ call.result.path \in disk')
                => call'.result.kind = "ok"]_vars

C9_Witness ==
    /\ call.op = "get_path"
    /\ call.attempt = 2
    /\ call.earlier = "ok"
    /\ call.result.kind = "FileNotFoundError"

\* C10: a raster source with no fill colour requested is handed to the
\* scaling step as the file holds it; its pixels differ from the file's only
\* when a fill colour is requested.
C10_RasterAsIs ==
    RenderedRaster
        => /\ call.args.colour = <<>> => call.result.pixmap = call.result.source
           /\ call.result.pixmap # call.result.source => call.args.colour # <<>>

C10_Witness ==
    /\ RenderedRaster
    /\ call.args.colour = <<>>
    /\ \E i \in DOMAIN call.result.source.pixels :
        /\ call.result.source.pixels[i].a = 128
        /\ call.result.pixmap.pixels[i] = [r |-> 10, g |-> 20, b |-> 30, a |-> 128]
====
